---- MODULE Spec2Model ----
(***************************************************************************)
(* A model of jwst_prop_status.py: the program-info extractor             *)
(* (get_prop_info), the visit-status normalizer (get_visit_status, under   *)
(* st.cache_data), the status filter (filter_df_by_status) and the         *)
(* Streamlit script that drives them on every form submission and rerun.   *)
(*                                                                         *)
(* Python values are records tagged with their type, so that values of     *)
(* different types can sit in the same field: None, a str (the sequence of *)
(* its characters, or of its text pieces where only equality matters), a   *)
(* list, a dict (one field per key, Missing where the key is absent), and  *)
(* Raise(e) for a call that ends in exception e instead of returning.      *)
(***************************************************************************)
EXTENDS Integers, Sequences, FiniteSets, TLC

VARIABLES
    remote_info,    \* the service's get-proposal-info document of each program id
    remote_status,  \* the service's get-visit-status document of each id, as xmltodict parses it
    cache,          \* st.cache_data's store for get_visit_status: id -> DataFrame or NoEntry
    session_pid,    \* st.session_state.pid
    pid,            \* the program id of the last call or form submission
    submit,         \* whether the last script run was a form submission
    fetches,        \* the URLs requests.get was called with, in order, during the last step
    message,        \* whether the last script run wrote "Program not found."
    prop_info,      \* what get_prop_info last returned (or Raise)
    status_df,      \* what get_visit_status last returned, after line 147 in a script run
    option,         \* the status selector (the selectbox's value)
    filtered_df,    \* the table handed to AwesomeTable
    df_height       \* the display-size hint

vars == <<remote_info, remote_status, cache, session_pid, pid, submit, fetches, message,
          prop_info, status_df, option, filtered_df, df_height>>

(***************************************************************************)
(* Bounds of the model.                                                    *)
(***************************************************************************)
MaxLen == 2      \* longest raw plan-window string, in characters
MaxList == 2     \* most plan-window strings in one visit entry
MaxVisits == 2   \* most visit entries in one enumerated report
MaxRows == 3     \* most rows in a DataFrame handed to the filter alone
MaxTail == 4     \* most content nodes after the allocation text of paragraph two

(***************************************************************************)
(* Python values.                                                          *)
(***************************************************************************)
None == [type |-> "NoneType"]
Missing == [type |-> "<missing key>"]
NoEntry == [type |-> "<no cache entry>"]
NotCalled == [type |-> "<not called>"]
Str(s) == [type |-> "str", s |-> s]
List(l) == [type |-> "list", items |-> l]
PyInt(n) == [type |-> "int", n |-> n]
Raise(e) == [type |-> "raise", exc |-> e]
DataFrame(rows) == [type |-> "DataFrame", rows |-> rows]

IsRaise(v) == "exc" \in DOMAIN v

Range(s) == {s[i] : i \in 1..Len(s)}

Pids == {"1234", "9999"}

InfoURL(p) ==
    <<"https://www.stsci.edu/cgi-bin/get-proposal-info?id=", p, "&observatory=JWST">>

StatusURL(p) ==
    <<"https://www.stsci.edu/cgi-bin/get-visit-status?id=", p,
      "&markupFormat=xml&observatory=JWST">>

(***************************************************************************)
(* get_visit_status, lines 38-108.                                         *)
(***************************************************************************)

\* str.split("(")[0]: the text before the first "(", the whole text without one.
SplitParen0(s) ==
    LET idx == {i \in 1..Len(s) : s[i] = "("}
    IN  IF idx = {} THEN s
        ELSE SubSeq(s, 1, (CHOOSE i \in idx : \A j \in idx : i <= j) - 1)

\* Lines 70-72: pws = ""; for i in vd["planWindow"]: pws += f"{i.split('(')[0]} "
RECURSIVE JoinPlanWindows(_)
JoinPlanWindows(items) ==
    IF items = <<>> THEN <<>>
    ELSE SplitParen0(Head(items).s) \o <<" ">> \o JoinPlanWindows(Tail(items))

LongRangePlaceholder ==
    <<"Ready for long range planning, plan window not yet assigned">>

\* plan_window with the long-range marker tested before the plan windows.
plan_window_marker_first(vd) ==
    IF vd.longRangePlanStatus # Missing
    THEN Str(LongRangePlaceholder)
    ELSE IF vd.planWindow # Missing
         THEN IF vd.planWindow.type = "list"
              THEN Str(JoinPlanWindows(vd.planWindow.items))
              ELSE IF vd.planWindow.type = "str"
                   THEN Str(SplitParen0(vd.planWindow.s))
                   ELSE Raise("AttributeError")
         ELSE None

\* Lines 68-83. A planWindow of None (an empty element) has no split: AttributeError.
plan_window(vd) ==
    IF vd.planWindow # Missing
    THEN IF vd.planWindow.type = "list"
         THEN Str(JoinPlanWindows(vd.planWindow.items))
         ELSE IF vd.planWindow.type = "str"
              THEN Str(SplitParen0(vd.planWindow.s))
              ELSE Raise("AttributeError")
    ELSE IF vd.longRangePlanStatus # Missing
         THEN Str(LongRangePlaceholder)
         ELSE None

RepeatedBySentence(rb) ==
    <<"Rescheduled by WOPR ">> \o rb.problemID.s \o <<" as observation ">>
        \o rb.observation.s \o <<" visit ">> \o rb.visit.s \o <<" in this program">>

RepeatOfSentence(ro) ==
    <<"Repeat of observation ">> \o ro.observation.s \o <<" visit(s) ">>
        \o ro.visit.s \o <<" in this program by WOPR ">> \o ro.problemID.s

ApprovedRepeatSentence(ar) ==
    <<"Repeat visit implementation pending by WOPR ">> \o ar.problemID.s

\* A sub-object read with rb['problemID'], rb['observation'], rb['visit'].
HasKeys(d, keys) == \A k \in keys : d[k] # Missing

\* repeat with repeatOf tested before repeatedBy.
repeat_of_first(vd) ==
    IF vd.repeatOf # Missing
    THEN IF HasKeys(vd.repeatOf, {"problemID", "observation", "visit"})
         THEN Str(RepeatOfSentence(vd.repeatOf))
         ELSE Raise("KeyError")
    ELSE IF vd.repeatedBy # Missing
         THEN IF HasKeys(vd.repeatedBy, {"problemID", "observation", "visit"})
              THEN Str(RepeatedBySentence(vd.repeatedBy))
              ELSE Raise("KeyError")
         ELSE IF vd.approvedRepeat # Missing
              THEN IF HasKeys(vd.approvedRepeat, {"problemID"})
                   THEN Str(ApprovedRepeatSentence(vd.approvedRepeat))
                   ELSE Raise("KeyError")
              ELSE None

\* Lines 85-104.
repeat(vd) ==
    IF vd.repeatedBy # Missing
    THEN IF HasKeys(vd.repeatedBy, {"problemID", "observation", "visit"})
         THEN Str(RepeatedBySentence(vd.repeatedBy))
         ELSE Raise("KeyError")
    ELSE IF vd.repeatOf # Missing
         THEN IF HasKeys(vd.repeatOf, {"problemID", "observation", "visit"})
              THEN Str(RepeatOfSentence(vd.repeatOf))
              ELSE Raise("KeyError")
         ELSE IF vd.approvedRepeat # Missing
              THEN IF HasKeys(vd.approvedRepeat, {"problemID"})
                   THEN Str(ApprovedRepeatSentence(vd.approvedRepeat))
                   ELSE Raise("KeyError")
              ELSE None

\* Lines 50-106: one raw entry to one row, or the exception that ends the call.
visit_dict(vd) ==
    IF vd.status = Missing THEN Raise("KeyError")
    ELSE LET pw == plan_window(vd)
             rp == repeat(vd)
         IN  IF IsRaise(pw) THEN pw
             ELSE IF IsRaise(rp) THEN rp
             ELSE [ observation   |-> vd.at_observation,
                    visit         |-> vd.at_visit,
                    status        |-> vd.status,
                    target        |-> vd.target,
                    configuration |-> vd.configuration,
                    hours         |-> vd.hours,
                    start_ut      |-> IF vd.startTime # Missing THEN vd.startTime ELSE None,
                    end_ut        |-> IF vd.endTime # Missing THEN vd.endTime ELSE None,
                    plan_window   |-> pw,
                    repeat        |-> rp ]

\* visit_data_list without the wrapping of line 47: a bare entry gives no row.
visit_data_list_unwrapped(visit) ==
    IF visit.type = "list" THEN visit.items ELSE <<>>

\* Lines 44-47: a bare entry is wrapped, a list is taken as it is.
visit_data_list(visit) ==
    IF visit.type = "list" THEN visit.items ELSE <<visit>>

\* Lines 42-108 on what xmltodict.parse returned: the DataFrame of the rows, or
\* the first exception (a document that does not parse, a report with no visit
\* key, an entry that raises).
ParseVisits(visit_data) ==
    IF visit_data.type = "malformed" THEN Raise("ExpatError")
    ELSE IF visit_data.visitStatusReport.visit = Missing THEN Raise("KeyError")
    ELSE LET l == visit_data_list(visit_data.visitStatusReport.visit)
             rows == [i \in 1..Len(l) |-> visit_dict(l[i])]
             bad == {i \in 1..Len(l) : IsRaise(rows[i])}
         IN  IF bad = {} THEN DataFrame(rows)
             ELSE rows[CHOOSE i \in bad : \A j \in bad : i <= j]

\* get_visit_status under a cache whose entries are never fresh (a ttl of 0):
\* every call runs the body and stores what it returns.
get_visit_status_refetched(p, store, remote) ==
    LET df == ParseVisits(remote[p])
    IN  [ret |-> df,
         cache |-> IF IsRaise(df) THEN store ELSE [store EXCEPT ![p] = df],
         fetched |-> <<StatusURL(p)>>]

\* get_visit_status(pid) under @st.cache_data (line 38): a stored result is
\* returned without running the body; otherwise the body runs (one fetch) and
\* what it returns is stored. A call that raises stores nothing.
\* The result: what the caller gets, the cache afterwards, the fetches issued.
get_visit_status(p, store, remote) ==
    IF store[p] # NoEntry
    THEN [ret |-> store[p], cache |-> store, fetched |-> <<>>]
    ELSE LET df == ParseVisits(remote[p])
         IN  [ret |-> df,
              cache |-> IF IsRaise(df) THEN store ELSE [store EXCEPT ![p] = df],
              fetched |-> <<StatusURL(p)>>]

(***************************************************************************)
(* filter_df_by_status, lines 117-124.  A DataFrame is the sequence of its *)
(* rows, in order.                                                         *)
(***************************************************************************)
RowHeight == 35
HeightPad == 3
All == Str(<<"All">>)

\* df.status.notnull(): None is null, a str is not.
notnull(v) == v # None

\* DropNullStatus without the filter of line 118: null rows stay.
DropNullStatus_kept(df) == DataFrame(df.rows)

\* Line 118, and line 147 of the script: df[df.status.notnull()]
DropNullStatus(df) ==
    DataFrame(SelectSeq(df.rows, LAMBDA r : notnull(r.status)))

\* A str without the difference of case (of the statuses of the model).
Fold(v) == IF v = Str(<<"Scheduled">>) THEN Str(<<"scheduled">>) ELSE v

\* SelectStatus with a match that ignores case.
SelectStatus_anycase(status, df) ==
    IF status = All
    THEN df
    ELSE DataFrame(SelectSeq(df.rows, LAMBDA r : Fold(r.status) = Fold(status)))

\* Lines 119-122: the rows the selector keeps of a frame without null status.
SelectStatus(status, df) ==
    IF status = All
    THEN df
    ELSE DataFrame(SelectSeq(df.rows, LAMBDA r : r.status = status))

filter_df_by_status(status, df) ==
    LET kept == SelectStatus(status, DropNullStatus(df))
    IN  [filtered_df |-> kept, height |-> Len(kept.rows) * RowHeight + HeightPad]

(***************************************************************************)
(* get_prop_info, lines 13-35.  The parsed page is its paragraphs, its     *)
(* headings and its links (find_all("p"), ("h1"), ("a")); an element is    *)
(* the sequence of its content nodes; a text node is the sequence of its   *)
(* pieces, " " and "\n" being white space.                                 *)
(***************************************************************************)
Text(s) == [type |-> "NavigableString", s |-> s]
Tag(name, contents) == [type |-> "Tag", name |-> name, contents |-> contents]
EmptyDict == [type |-> "dict"]

IsSpace(c) == c \in {" ", "\n"}

\* seq[k] of Python for k >= 0, and seq[-1].
GetItem(seq, k) == IF k < Len(seq) THEN seq[k + 1] ELSE Raise("IndexError")
GetLast(seq) == IF Len(seq) > 0 THEN seq[Len(seq)] ELSE Raise("IndexError")

\* str.strip(): without its leading and trailing white space.
Strip(s) ==
    LET ink == {i \in 1..Len(s) : ~IsSpace(s[i])}
    IN  IF ink = {} THEN <<>>
        ELSE SubSeq(s, CHOOSE i \in ink : \A j \in ink : i <= j,
                       CHOOSE i \in ink : \A j \in ink : j <= i)

\* node.strip(): a Tag has no strip (bs4 looks for a child tag of that name,
\* finds None, and the call of None is a TypeError).
StripNode(node) ==
    IF IsRaise(node) THEN node
    ELSE IF node.type = "NavigableString" THEN Str(Strip(node.s))
    ELSE Raise("TypeError")

\* str.split(): the maximal runs without white space, in order.
Split(s) ==
    LET starts == {i \in 1..Len(s) : ~IsSpace(s[i]) /\ (i = 1 \/ IsSpace(s[i - 1]))}
        start(k) == CHOOSE i \in starts : Cardinality({j \in starts : j < i}) = k - 1
        end(i) == CHOOSE e \in i..Len(s) :
                      /\ \A j \in i..e : ~IsSpace(s[j])
                      /\ (e = Len(s) \/ IsSpace(s[e + 1]))
    IN  [k \in 1..Cardinality(starts) |-> SubSeq(s, start(k), end(start(k)))]

\* The numerals of the model and their values (a float in tenths).
IntLiterals == {"0", "1", "12"}
FloatLiterals == IntLiterals \cup {"23.5"}
IntValue(w) == CASE w = "0" -> 0 [] w = "1" -> 1 [] w = "12" -> 12
Tenths(w) == IF w = "23.5" THEN 235 ELSE 10 * IntValue(w)

\* int(word), float(word) of a str without white space.
int(word) ==
    IF Len(word.s) = 1 /\ word.s[1] \in IntLiterals
    THEN PyInt(IntValue(word.s[1])) ELSE Raise("ValueError")
float(word) ==
    IF Len(word.s) = 1 /\ word.s[1] \in FloatLiterals
    THEN [type |-> "float", tenths |-> Tenths(word.s[1])] ELSE Raise("ValueError")

\* x.strip().split()[0] of a content node x.
FirstWord(node) ==
    LET s == StripNode(node)
    IN  IF IsRaise(s) THEN s
        ELSE IF Split(s.s) = <<>> THEN Raise("IndexError")
        ELSE Str(Split(s.s)[1])

\* Line 25: int() of the stripped text, which must be one numeral and no more.
cycle(c) ==
    LET s == StripNode(GetItem(c, 5))
    IN  IF IsRaise(s) THEN s
        ELSE IF Len(Split(s.s)) = 1 THEN int(Str(Split(s.s)[1])) ELSE Raise("ValueError")

\* Line 26.
allocation(c) ==
    LET w == FirstWord(GetItem(c, 9))
    IN  IF IsRaise(w) THEN w ELSE float(w)

\* Lines 27-30: only the IndexError of an empty split()[0] (or of contents[-1]
\* of an empty paragraph) is caught.
excl_time(c) ==
    LET w == FirstWord(GetLast(c))
    IN  IF IsRaise(w)
        THEN IF w.exc = "IndexError" THEN PyInt(0) ELSE w
        ELSE int(w)

\* Line 31: find_all("h1")[0].contents[1].contents[0]
ptype(h1s) ==
    LET h == GetItem(h1s, 0)
        n == IF IsRaise(h) THEN h ELSE GetItem(h.contents, 1)
    IN  IF IsRaise(n) THEN n
        ELSE IF n.type # "Tag" THEN Raise("AttributeError")
        ELSE GetItem(n.contents, 0)

\* The first exception among the values, in order, or Missing when none raises.
FirstRaise(vals) ==
    LET bad == {i \in 1..Len(vals) : IsRaise(vals[i])}
    IN  IF bad = {} THEN Missing
        ELSE vals[CHOOSE i \in bad : \A j \in bad : i <= j]

\* Lines 19-35 on the parsed page.
ExtractPropInfo(html_data) ==
    LET ps == html_data.ps
    IN  IF ps = <<>> THEN EmptyDict
        ELSE
        LET p0 == ps[1].contents
            p1 == IF Len(ps) > 1 THEN ps[2].contents ELSE <<>>
            noP1 == IF Len(ps) > 1 THEN Missing ELSE Raise("IndexError")
            pi == StripNode(GetItem(p0, 1))
            pi_inst == StripNode(GetItem(p0, 5))
            title == IF IsRaise(noP1) THEN noP1 ELSE StripNode(GetItem(p1, 1))
            cy == cycle(p1)
            al == allocation(p1)
            ex == excl_time(p1)
            pt == ptype(html_data.h1s)
            apt == GetItem(html_data.links, 9)
            pdf == GetItem(html_data.links, 10)
            err == FirstRaise(<<pi, pi_inst, title, cy, al, ex, pt, apt, pdf>>)
        IN  IF err # Missing THEN err
            ELSE [type |-> "dict", pi |-> pi, pi_inst |-> pi_inst, title |-> title,
                  cycle |-> cy, allocation |-> al, excl_time |-> ex, ptype |-> pt,
                  apt |-> apt, pdf |-> pdf]

\* get_prop_info(pid): one fetch of the info URL, then the extraction.
get_prop_info(p, remote) ==
    [ret |-> ExtractPropInfo(remote[p]), fetched |-> <<InfoURL(p)>>]

(***************************************************************************)
(* The inputs the specifications draw from.                                *)
(***************************************************************************)
S(x) == Str(<<x>>)

\* Raw plan-window texts: xmltodict strips a text of its outer white space and
\* gives None for an empty one, so a text neither starts nor ends with " ".
Chars == {"x", " ", "("}
RawStrings ==
    {s \in UNION {[1..n -> Chars] : n \in 1..MaxLen} : s[1] # " " /\ s[Len(s)] # " "}

\* xmltodict gives a list only for two or more elements of the same name.
PlanWindowValues ==
    {Str(s) : s \in RawStrings}
        \cup {List(l) : l \in UNION {[1..n -> {Str(s) : s \in RawStrings}] : n \in 2..MaxList}}

PlanWindowExamples ==
    { Missing, None, Str(<<"x", " ", "(", "x", ")">>),
      List(<<Str(<<"x", " ", "(", "x", ")">>), Str(<<"x", "x">>)>>) }

Ref(problem) ==
    [type |-> "dict", problemID |-> problem, observation |-> S("3"), visit |-> S("1")]
Refs == {Missing, Ref(S("77")), Ref(Missing)}
ApprovedRefs ==
    {Missing, [type |-> "dict", problemID |-> S("78")], [type |-> "dict", problemID |-> Missing]}

Entry(obs, st, start, end, pw, lrps, rb, ro, ar) ==
    [ type |-> "dict", at_observation |-> obs, at_visit |-> S("1"), status |-> st,
      target |-> S("T1"), configuration |-> S("NIRCam"), hours |-> S("2.0"),
      startTime |-> start, endTime |-> end, planWindow |-> pw,
      longRangePlanStatus |-> lrps, repeatedBy |-> rb, repeatOf |-> ro,
      approvedRepeat |-> ar ]

\* Every combination of the optional keys, over a few plan-window values.
PresenceEntries ==
    { Entry(S("1"), st, start, end, pw, lrps, rb, ro, ar) :
        st \in {Missing, None, S("Scheduled")},
        start \in {Missing, S("2022-07-10T01:00:00Z")},
        end \in {Missing, S("2022-07-10T03:00:00Z")},
        pw \in PlanWindowExamples,
        lrps \in {Missing, S("Ready")},
        rb \in Refs, ro \in Refs, ar \in ApprovedRefs }

\* Every plan-window value within the bounds, the other optional keys absent.
PlanWindowEntries ==
    { Entry(S("1"), S("Scheduled"), Missing, Missing, pw, lrps, Missing, Missing, Missing) :
        pw \in PlanWindowValues, lrps \in {Missing, S("Ready")} }

Entries == PresenceEntries \cup PlanWindowEntries

\* The entries of the reports with several visits.
ListEntries ==
    { Entry(S(o), st, Missing, Missing, Missing, lrps, Missing, ro, Missing) :
        o \in {"1"}, st \in {None, S("Scheduled")}, lrps \in {Missing, S("Ready")},
        ro \in {Missing, Ref(S("77"))} }

Report(visit) == [type |-> "dict", visitStatusReport |-> [type |-> "dict", visit |-> visit]]
Malformed == [type |-> "malformed"]

\* The parsed documents of the two ids: the same one entry, bare for the first
\* id (what xmltodict gives for one visit element) and in a list of one for the
\* second (what lines 44-45 take as any other list); or the same document for
\* both.
ReportPairs ==
    { <<Report(e), Report(List(<<e>>))>> : e \in Entries }
        \cup { <<Report(List(l)), Report(List(l))>> :
                 l \in UNION {[1..n -> ListEntries] : n \in 2..MaxVisits} }
        \cup { <<Malformed, Malformed>>, <<Report(Missing), Report(Missing)>> }

NoPid == "<None>"
NoPage == [type |-> "html", ps |-> <<>>, h1s |-> <<>>, links |-> <<>>]

\* The variables a specification of one function leaves at rest.
ScriptAtRest ==
    /\ session_pid = NoPid
    /\ submit = FALSE
    /\ message = FALSE
    /\ option = All
    /\ filtered_df = NotCalled
    /\ df_height = 0

(***************************************************************************)
(* SpecVisit: get_visit_status called on every report within the bounds.   *)
(***************************************************************************)
CallGetVisitStatus(p) ==
    LET r == get_visit_status(p, cache, remote_status)
    IN  /\ pid' = p
        /\ status_df' = r.ret
        /\ cache' = r.cache
        /\ fetches' = r.fetched
        /\ UNCHANGED <<remote_info, remote_status, session_pid, submit, message,
                       prop_info, option, filtered_df, df_height>>

InitVisit ==
    /\ \E pr \in ReportPairs :
         remote_status = [p \in Pids |-> IF p = "1234" THEN pr[1] ELSE pr[2]]
    /\ remote_info = [p \in Pids |-> NoPage]
    /\ cache = [p \in Pids |-> NoEntry]
    /\ pid = ""
    /\ fetches = <<>>
    /\ prop_info = NotCalled
    /\ status_df = NotCalled
    /\ ScriptAtRest

NextVisit == \E p \in Pids : CallGetVisitStatus(p)

SpecVisit == InitVisit /\ [][NextVisit]_vars

(***************************************************************************)
(* Properties of get_visit_status (SpecVisit).                             *)
(***************************************************************************)
Returned == status_df # NotCalled /\ ~IsRaise(status_df)
HasVisits(d) == d.type = "dict" /\ d.visitStatusReport.visit # Missing
IsBare(d) == HasVisits(d) /\ d.visitStatusReport.visit.type = "dict"
IsListOfOne(d) ==
    /\ HasVisits(d)
    /\ d.visitStatusReport.visit.type = "list"
    /\ Len(d.visitStatusReport.visit.items) = 1

\* The raw entries of a report, in document order.
EntriesOf(d) ==
    IF d.visitStatusReport.visit.type = "list"
    THEN d.visitStatusReport.visit.items
    ELSE <<d.visitStatusReport.visit>>

Columns ==
    {"observation", "visit", "status", "target", "configuration", "hours",
     "start_ut", "end_ut", "plan_window", "repeat"}

\* Entry e and the row built from it agree on the six fields copied as they are
\* and on the two optional times.
CopiedFields(e, r) ==
    /\ DOMAIN r = Columns
    /\ r.observation = e.at_observation /\ r.visit = e.at_visit
    /\ r.status = e.status /\ r.target = e.target
    /\ r.configuration = e.configuration /\ r.hours = e.hours
    /\ r.start_ut = (IF e.startTime = Missing THEN None ELSE e.startTime)
    /\ r.end_ut = (IF e.endTime = Missing THEN None ELSE e.endTime)

\* The row of entry i of the report just parsed holds P(entry, row).
EveryRow(P(_, _)) ==
    Returned =>
        /\ Len(status_df.rows) = Len(EntriesOf(remote_status[pid]))
        /\ \A i \in 1..Len(status_df.rows) :
               P(EntriesOf(remote_status[pid])[i], status_df.rows[i])

\* C1: a report whose visit field is one bare entry and a report whose visit
\* field is a list of that one entry give the same DataFrame: one row, whose
\* ten fields are the entry's; and the one raises exactly when the other does.
C1_BareAndListOfOneAgree ==
    /\ ( /\ IsBare(remote_status["1234"]) /\ IsListOfOne(remote_status["9999"])
         /\ EntriesOf(remote_status["1234"]) = EntriesOf(remote_status["9999"])
         /\ cache["1234"] # NoEntry /\ cache["9999"] # NoEntry )
       => cache["1234"] = cache["9999"]
    /\ ( status_df # NotCalled
         /\ (IsBare(remote_status[pid]) \/ IsListOfOne(remote_status[pid])) )
       => IF IsRaise(visit_dict(EntriesOf(remote_status[pid])[1]))
          THEN status_df = visit_dict(EntriesOf(remote_status[pid])[1])
          ELSE /\ Returned
               /\ Len(status_df.rows) = 1
               /\ CopiedFields(EntriesOf(remote_status[pid])[1], status_df.rows[1])

C1_Witness ==
    /\ IsBare(remote_status["1234"]) /\ IsListOfOne(remote_status["9999"])
    /\ cache["1234"] # NoEntry /\ cache["9999"] # NoEntry
    /\ pid = "1234" /\ Returned /\ Len(status_df.rows) = 1
    /\ status_df.rows[1].plan_window # None /\ status_df.rows[1].repeat # None

\* The characters of the raw plan-window text(s) of an entry.
RawChars(pw) ==
    IF pw.type = "list" THEN UNION {Range(pw.items[i].s) : i \in 1..Len(pw.items)}
    ELSE Range(pw.s)

PlanWindowRule(e, r) ==
    /\ "plan_window" \in DOMAIN r
    /\ e.planWindow # Missing =>
         /\ r.plan_window.type = "str"
         /\ r.plan_window # Str(LongRangePlaceholder)
         /\ Range(r.plan_window.s) \subseteq (RawChars(e.planWindow) \cup {" "}) \ {"("}
    /\ (e.planWindow = Missing /\ e.longRangePlanStatus # Missing) =>
         r.plan_window = Str(LongRangePlaceholder)
    /\ (e.planWindow = Missing /\ e.longRangePlanStatus = Missing) =>
         r.plan_window = None

\* C2: plan_window is always set, and is a value made of the plan-window
\* text(s) when planWindow is present (with or without longRangePlanStatus),
\* otherwise the placeholder sentence when longRangePlanStatus is present,
\* otherwise None.
C2_PlanWindowPriority == EveryRow(PlanWindowRule)

C2_Witness ==
    /\ Returned /\ IsBare(remote_status[pid])
    /\ EntriesOf(remote_status[pid])[1].planWindow # Missing
    /\ EntriesOf(remote_status[pid])[1].longRangePlanStatus # Missing
    /\ status_df.rows[1].plan_window.type = "str"

\* The one piece of an id read from a sub-object.
Id(v) == v.s[1]

RepeatRule(e, r) ==
    /\ "repeat" \in DOMAIN r
    /\ e.repeatedBy # Missing =>
         /\ HasKeys(e.repeatedBy, {"problemID", "observation", "visit"})
         /\ r.repeat = Str(<<"Rescheduled by WOPR ", Id(e.repeatedBy.problemID),
                          " as observation ", Id(e.repeatedBy.observation),
                          " visit ", Id(e.repeatedBy.visit), " in this program">>)
    /\ (e.repeatedBy = Missing /\ e.repeatOf # Missing) =>
         /\ HasKeys(e.repeatOf, {"problemID", "observation", "visit"})
         /\ r.repeat = Str(<<"Repeat of observation ", Id(e.repeatOf.observation),
                          " visit(s) ", Id(e.repeatOf.visit),
                          " in this program by WOPR ", Id(e.repeatOf.problemID)>>)
    /\ (e.repeatedBy = Missing /\ e.repeatOf = Missing /\ e.approvedRepeat # Missing) =>
         /\ HasKeys(e.approvedRepeat, {"problemID"})
         /\ r.repeat = Str(<<"Repeat visit implementation pending by WOPR ",
                          Id(e.approvedRepeat.problemID)>>)
    /\ (e.repeatedBy = Missing /\ e.repeatOf = Missing /\ e.approvedRepeat = Missing) =>
         r.repeat = None

\* C3: repeat is the rescheduled-by sentence when repeatedBy is present
\* (whatever else is), otherwise the repeat-of sentence when repeatOf is present,
\* otherwise the pending sentence when approvedRepeat is present, otherwise None.
C3_RepeatPriority == EveryRow(RepeatRule)

C3_Witness ==
    /\ Returned /\ IsBare(remote_status[pid])
    /\ EntriesOf(remote_status[pid])[1].repeatedBy # Missing
    /\ EntriesOf(remote_status[pid])[1].repeatOf # Missing
    /\ EntriesOf(remote_status[pid])[1].approvedRepeat # Missing
    /\ status_df.rows[1].repeat.type = "str"

\* The texts joined with one space between neighbours and none after the last.
RECURSIVE JoinedWithSpaces(_)
JoinedWithSpaces(texts) ==
    IF texts = <<>> THEN <<>>
    ELSE IF Len(texts) = 1 THEN texts[1]
    ELSE texts[1] \o <<" ">> \o JoinedWithSpaces(Tail(texts))

\* The plan-window texts of an entry, one string taken as a list of one, each
\* without what follows its "(".
StrippedWindows(pw) ==
    IF pw.type = "list"
    THEN [i \in 1..Len(pw.items) |-> SplitParen0(pw.items[i].s)]
    ELSE <<SplitParen0(pw.s)>>

JoinedRule(e, r) ==
    e.planWindow # Missing =>
        r.plan_window = Str(JoinedWithSpaces(StrippedWindows(e.planWindow)))

\* C4: with planWindow present, plan_window is the stripped texts joined with
\* single spaces between them and no separator after the last, a single string
\* counting as a list of one.
C4_PlanWindowJoined == EveryRow(JoinedRule)

(***************************************************************************)
(* SpecFilter: filter_df_by_status on every frame and selector within the  *)
(* bounds.                                                                 *)
(***************************************************************************)
Row(obs, st) ==
    [ observation |-> S(obs), visit |-> S("1"), status |-> st, target |-> S("T1"),
      configuration |-> S("NIRCam"), hours |-> S("2.0"), start_ut |-> None,
      end_ut |-> None, plan_window |-> None, repeat |-> None ]

ObsIds == <<"1", "2", "3", "4", "5">>
Statuses == {None, S("Scheduled"), S("scheduled"), S("Executed")}
Selectors == {All, S("all"), S("Scheduled"), S("scheduled"), S("Executed")}

CallFilter ==
    LET r == filter_df_by_status(option, status_df)
    IN  /\ filtered_df' = r.filtered_df
        /\ df_height' = r.height
        /\ UNCHANGED <<remote_info, remote_status, cache, session_pid, pid, submit,
                       fetches, message, prop_info, status_df, option>>

InitFilter ==
    /\ \E n \in 0..MaxRows : \E sts \in [1..n -> Statuses] :
         status_df = DataFrame([i \in 1..n |-> Row(ObsIds[i], sts[i])])
    /\ option \in Selectors
    /\ remote_info = [p \in Pids |-> NoPage]
    /\ remote_status = [p \in Pids |-> Malformed]
    /\ cache = [p \in Pids |-> NoEntry]
    /\ session_pid = NoPid
    /\ pid = ""
    /\ submit = FALSE
    /\ fetches = <<>>
    /\ message = FALSE
    /\ prop_info = NotCalled
    /\ filtered_df = NotCalled
    /\ df_height = 0

NextFilter == CallFilter

SpecFilter == InitFilter /\ [][NextFilter]_vars

Filtered == filtered_df # NotCalled

\* out is exactly the rows of src that Keep holds of, all of them, in the
\* order they have in src.
KeptInOrder(src, out, Keep(_)) ==
    LET idx == {i \in 1..Len(src) : Keep(src[i])}
    IN  /\ Len(out) = Cardinality(idx)
        /\ \A k \in 1..Len(out) :
               out[k] = src[CHOOSE i \in idx : Cardinality({j \in idx : j < i}) = k - 1]

HasStatus(r) == r.status # None

\* C5 as stated: the selector "all" returns exactly the rows with a status,
\* in their order.
C5_LowercaseAllReturnsAll ==
    (Filtered /\ option = S("all")) =>
        KeptInOrder(status_df.rows, filtered_df.rows, HasStatus)

\* C5 as amended: the selector "All" (the sentinel of line 119, the first
\* option of the select box) returns exactly the rows with a status, in their
\* order.
C5_AllReturnsNonNull ==
    (Filtered /\ option = All) =>
        KeptInOrder(status_df.rows, filtered_df.rows, HasStatus)

C5_Witness ==
    /\ Filtered /\ option = All
    /\ Len(status_df.rows) = 3
    /\ status_df.rows[2].status = None
    /\ Len(filtered_df.rows) = 2

StatusIsOption(r) == r.status = option

\* C6: a selector other than the sentinel returns exactly the rows whose status
\* is that very string (never a null or another status, another case included),
\* in their order.
C6_SpecificStatusExact ==
    (Filtered /\ option # All) =>
        /\ KeptInOrder(status_df.rows, filtered_df.rows, StatusIsOption)
        /\ \A k \in 1..Len(filtered_df.rows) :
               filtered_df.rows[k].status = option /\ filtered_df.rows[k].status # None

C6_Witness ==
    /\ Filtered /\ option = S("Scheduled")
    /\ Len(status_df.rows) = 3
    /\ status_df.rows[1].status = S("Scheduled")
    /\ status_df.rows[2].status = S("scheduled")
    /\ status_df.rows[3].status = S("Scheduled")
    /\ Len(filtered_df.rows) = 2

(***************************************************************************)
(* SpecInfo: get_prop_info on the info pages within the bounds.            *)
(***************************************************************************)
B(label) == Tag("b", <<Text(<<label>>)>>)
Br == Tag("br", <<>>)
Nl == Text(<<"\n">>)
Link(href, label) ==
    [type |-> "Tag", name |-> "a", contents |-> <<Text(<<label>>)>>, href |-> <<href>>]

P0Good ==
    << B("Principal Investigator:"), Text(<<" ", "Jane", " ", "Doe">>), Br, Nl,
       B("PI Institution:"), Text(<<" ", "STScI">>) >>

\* The second paragraph up to the allocation text (content nodes 0 to 9).
P1Head(cy, al) ==
    << B("Title:"), Text(<<" ", "Deep", " ", "Field">>), Br, Nl,
       B("Cycle:"), Text(cy), Br, Nl, B("Allocation:"), Text(al) >>

CycleTexts == {<<" ", "1">>, <<" ", "x">>}
AllocationTexts == {<<" ", "23.5", " ", "hours">>, <<" ", "12", " ", "hours">>}

\* What may follow the allocation text: a line break, white space, the label
\* and the text of the exclusive access period.
ExclLabel == B("Exclusive Access Period:")
ExclText == Text(<<" ", "12", " ", "months", "\n">>)
TailNodes == {Br, Nl, ExclLabel, ExclText}
Tails == UNION {[1..n -> TailNodes] : n \in 0..MaxTail}

H1Good == Tag("h1", <<Text(<<"Proposal ">>), Tag("a", <<Text(<<"GO">>)>>)>>)
GoodLinks == [i \in 1..11 |-> Link("jwst/phase2-public/1234.aptx", "APT")]

Page(p0, p1, h1s, links) ==
    [ type |-> "html",
      ps |-> <<Tag("p", p0), Tag("p", p1)>>,
      h1s |-> h1s,
      links |-> links ]

GoodPages ==
    { Page(P0Good, P1Head(cy, al) \o tl, <<H1Good>>, GoodLinks) :
        cy \in CycleTexts, al \in AllocationTexts, tl \in Tails }

\* Pages off the template in one place: a short first paragraph, one
\* paragraph only, no heading, ten links.
P1Full == P1Head(<<" ", "1">>, <<" ", "23.5", " ", "hours">>) \o <<Br, Nl, ExclLabel, ExclText>>
BrokenPages ==
    { Page(SubSeq(P0Good, 1, 5), P1Full, <<H1Good>>, GoodLinks),
      [type |-> "html", ps |-> <<Tag("p", P0Good)>>, h1s |-> <<H1Good>>, links |-> GoodLinks],
      Page(P0Good, P1Full, <<>>, GoodLinks),
      Page(P0Good, P1Full, <<H1Good>>, SubSeq(GoodLinks, 1, 10)) }

InfoPages == {NoPage} \cup GoodPages \cup BrokenPages

CallGetPropInfo(p) ==
    LET r == get_prop_info(p, remote_info)
    IN  /\ pid' = p
        /\ prop_info' = r.ret
        /\ fetches' = r.fetched
        /\ UNCHANGED <<remote_info, remote_status, cache, session_pid, submit, message,
                       status_df, option, filtered_df, df_height>>

InitInfo ==
    /\ \E d \in InfoPages : remote_info = [p \in Pids |-> d]
    /\ remote_status = [p \in Pids |-> Malformed]
    /\ cache = [p \in Pids |-> NoEntry]
    /\ pid = ""
    /\ fetches = <<>>
    /\ prop_info = NotCalled
    /\ status_df = NotCalled
    /\ ScriptAtRest

NextInfo == \E p \in Pids : CallGetPropInfo(p)

SpecInfo == InitInfo /\ [][NextInfo]_vars

\* The page follows the template in everything but the exclusive access
\* period, of which it has neither the label nor the text: after the
\* allocation text come line breaks and white space only.
NoExclusionField(d) ==
    /\ Len(d.ps) = 2 /\ d.ps[1].contents = P0Good
    /\ d.h1s = <<H1Good>> /\ d.links = GoodLinks
    /\ \E al \in AllocationTexts, tl \in Tails :
         /\ d.ps[2].contents = P1Head(<<" ", "1">>, al) \o tl
         /\ Range(tl) \subseteq {Br, Nl}

\* C10: a page with everything but the exclusion-time field gives a ProgramInfo
\* with excl_time 0, and no exception, whatever its last content node is.
C10_MissingExclusionIsZero ==
    (prop_info # NotCalled /\ NoExclusionField(remote_info[pid])) =>
        /\ ~IsRaise(prop_info)
        /\ prop_info # EmptyDict
        /\ prop_info.excl_time = PyInt(0)

(***************************************************************************)
(* The documents the service may hold for an id at any time, in the        *)
(* specifications in which they change under the program.                  *)
(***************************************************************************)
ReportOne ==
    Report(Entry(S("1"), S("Scheduled"), Missing, Missing, Missing, S("Ready"),
                 Missing, Missing, Missing))
ReportTwo ==
    Report(List(<< Entry(S("1"), None, Missing, Missing, Missing, Missing,
                         Missing, Missing, Missing),
                   Entry(S("2"), S("Executed"), S("2022-07-10T01:00:00Z"),
                         S("2022-07-10T03:00:00Z"), Str(<<"x", " ", "(", "x", ")">>),
                         Missing, Missing, Missing, Missing) >>))
ServedReports == {ReportOne, ReportTwo, Malformed}

GoodPage == Page(P0Good, P1Full, <<H1Good>>, GoodLinks)
OffTemplatePage == Page(P0Good, P1Full, <<>>, GoodLinks)
ServedPages == {NoPage, GoodPage, OffTemplatePage}

\* The service replaces the status document of an id.
UpstreamStatusChange(p, d) ==
    /\ d # remote_status[p]
    /\ remote_status' = [remote_status EXCEPT ![p] = d]
    /\ UNCHANGED <<remote_info, cache, session_pid, pid, submit, fetches, message,
                   prop_info, status_df, option, filtered_df, df_height>>

\* The service replaces the info page of an id.
UpstreamInfoChange(p, d) ==
    /\ d # remote_info[p]
    /\ remote_info' = [remote_info EXCEPT ![p] = d]
    /\ UNCHANGED <<remote_status, cache, session_pid, pid, submit, fetches, message,
                   prop_info, status_df, option, filtered_df, df_height>>

(***************************************************************************)
(* SpecCache: calls of get_visit_status in one process, while the service  *)
(* changes its documents.                                                  *)
(***************************************************************************)
InitCache ==
    /\ remote_status \in [Pids -> ServedReports]
    /\ remote_info = [p \in Pids |-> NoPage]
    /\ cache = [p \in Pids |-> NoEntry]
    /\ pid = ""
    /\ fetches = <<>>
    /\ prop_info = NotCalled
    /\ status_df = NotCalled
    /\ ScriptAtRest

NextCache ==
    \/ \E p \in Pids : CallGetVisitStatus(p)
    \/ \E p \in Pids, d \in ServedReports : UpstreamStatusChange(p, d)

SpecCache == InitCache /\ [][NextCache]_vars

\* C7: once a call for an id has returned a result, the result stays stored
\* whatever is called or changed afterwards, and every later call for that id
\* (a step that leaves the service's documents alone and is for that id)
\* returns it and fetches nothing.
C7_CachedResultReused ==
    [][ \A p \in Pids :
          cache[p] # NoEntry =>
            /\ cache'[p] = cache[p]
            /\ (remote_status' = remote_status /\ pid' = p) =>
                 (status_df' = cache[p] /\ fetches' = <<>>) ]_vars

\* A call for an id answered from the store after the service's document has
\* changed, the other id's result still stored.
C7_Witness ==
    /\ pid = "1234" /\ fetches = <<>>
    /\ cache["1234"] # NoEntry /\ status_df = cache["1234"]
    /\ ParseVisits(remote_status["1234"]) # cache["1234"]
    /\ cache["9999"] # NoEntry

(***************************************************************************)
(* Spec: the Streamlit script, lines 127-186.  Every form submission and   *)
(* every change of the select box runs the script from the top; the        *)
(* session state and the cache outlive the runs.                           *)
(***************************************************************************)
Truthy(p) == p # NoPid /\ p # ""

\* Line 148: list(status_df["status"].drop_duplicates())
RECURSIVE status_list(_)
status_list(rows) ==
    IF rows = <<>> THEN <<>>
    ELSE LET rest == status_list(SubSeq(rows, 1, Len(rows) - 1))
             st == rows[Len(rows)].status
         IN  IF st \in Range(rest) THEN rest ELSE Append(rest, st)

\* What a run leaves to see when it ends before the page: at line 142, or in an
\* exception.
Ended(sess, store, msg, fetched, info, df) ==
    [ session_pid |-> sess, cache |-> store, message |-> msg, fetches |-> fetched,
      prop_info |-> info, status_df |-> df, option |-> option,
      filtered_df |-> NotCalled, df_height |-> 0 ]

\* Lines 147-186, after get_prop_info returned g and get_visit_status v: the
\* page, or the exception that ends the run.  sel is what the select box holds.
Page144(sess, sel, msg, fetched, g, v) ==
    IF IsRaise(g.ret)
    THEN Ended(sess, cache, msg, fetched \o g.fetched, g.ret, NotCalled)
    ELSE IF IsRaise(v.ret)
    THEN Ended(sess, cache, msg, fetched \o g.fetched \o v.fetched, g.ret, v.ret)
    ELSE LET df == DropNullStatus(v.ret)
             options == <<All>> \o status_list(df.rows)
             opt == IF sel \in Range(options) THEN sel ELSE All
             f == filter_df_by_status(opt, df)
         IN  IF g.ret = EmptyDict
             THEN \* line 149: prop_info["title"] of an empty dict, KeyError
                  Ended(sess, v.cache, msg, fetched \o g.fetched \o v.fetched,
                        Raise("KeyError"), df)
             ELSE [ session_pid |-> sess, cache |-> v.cache, message |-> msg,
                    fetches |-> fetched \o g.fetched \o v.fetched,
                    prop_info |-> g.ret, status_df |-> df, option |-> opt,
                    filtered_df |-> f.filtered_df, df_height |-> f.height ]

Shows(r) ==
    /\ session_pid' = r.session_pid
    /\ cache' = r.cache
    /\ message' = r.message
    /\ fetches' = r.fetches
    /\ prop_info' = r.prop_info
    /\ status_df' = r.status_df
    /\ option' = r.option
    /\ filtered_df' = r.filtered_df
    /\ df_height' = r.df_height
    /\ UNCHANGED <<remote_info, remote_status>>

\* Lines 144-186 with the session pid sess: nothing more when it is not set,
\* else the two calls and the page.
Render(sess, sel, msg, fetched, info) ==
    IF ~Truthy(sess)
    THEN Shows(Ended(sess, cache, msg, fetched, info, NotCalled))
    ELSE \E g \in {get_prop_info(sess, remote_info)} :
         \E v \in {get_visit_status(sess, cache, remote_status)} :
         \E r \in {Page144(sess, sel, msg, fetched, g, v)} : Shows(r)

\* The user submits the form with a program id: lines 137-142, then the rest
\* of the script.  An exception in get_prop_info ends the run at line 138.
Submit(input) ==
    /\ pid' = input
    /\ submit' = TRUE
    /\ \E g \in {get_prop_info(input, remote_info)} :
         IF IsRaise(g.ret)
         THEN Shows(Ended(session_pid, cache, FALSE, g.fetched, g.ret, NotCalled))
         ELSE \E sess \in {IF g.ret # EmptyDict THEN input ELSE session_pid} :
                Render(sess, option, ~Truthy(sess), g.fetched, g.ret)

\* The user picks a status in the select box of the page shown: the script
\* runs again, the form not submitted.
SelectOption(sel) ==
    /\ filtered_df # NotCalled
    /\ sel \in Range(<<All>> \o status_list(status_df.rows))
    /\ pid' = pid
    /\ submit' = FALSE
    /\ Render(session_pid, sel, FALSE, <<>>, NotCalled)

Init ==
    /\ remote_info \in [Pids -> ServedPages]
    /\ remote_status \in [Pids -> ServedReports]
    /\ cache = [p \in Pids |-> NoEntry]
    /\ pid = ""
    /\ fetches = <<>>
    /\ prop_info = NotCalled
    /\ status_df = NotCalled
    /\ ScriptAtRest

Next ==
    \/ \E input \in Pids : Submit(input)
    \/ \E sel \in Selectors : SelectOption(sel)
    \/ \E p \in Pids, d \in ServedReports : UpstreamStatusChange(p, d)
    \/ \E p \in Pids, d \in ServedPages : UpstreamInfoChange(p, d)

Spec == Init /\ [][Next]_vars

\* C8: a submission of an id whose info page has no paragraphs (get_prop_info
\* returns the empty dict) writes "Program not found.", whatever was submitted
\* before.
C8_NotFoundAlwaysShown ==
    [][ ( /\ submit'
          /\ remote_info' = remote_info /\ remote_status' = remote_status
          /\ pid' \in Pids
          /\ remote_info[pid'].ps = <<>> )
        => message' ]_vars

\* C9: a form submission and the run it triggers fetch at most twice: the info
\* URL once and the status URL at most once, both of the submitted id.
C9_AtMostTwoFetches ==
    submit =>
        /\ Len(fetches) <= 2
        /\ Cardinality({i \in 1..Len(fetches) : fetches[i] = InfoURL(pid)}) = 1
        /\ Cardinality({i \in 1..Len(fetches) : fetches[i] = StatusURL(pid)}) <= 1
        /\ Range(fetches) \subseteq {InfoURL(pid), StatusURL(pid)}

====
